---- MODULE Spec2Model ----
(***************************************************************************)
(* A model of improver's BasicNeighbourhoodProcessing                      *)
(* (src/lib/improver/nbhood.py): the constructor, the lead-time lookup,    *)
(* the radius-to-grid-cells conversion, the kernel, the smoothing and the  *)
(* orchestration in process().                                             *)
(*                                                                         *)
(* Numbers are exact rationals <<n, d>> with d > 0 in lowest terms; the    *)
(* pair <<0, 0>> stands for NaN.  Arrays are records [shape, flat] with    *)
(* the cells in C (row-major) order, as numpy stores them.  The list       *)
(* returned by map(float, ...) is a list (Python 2, the language of the    *)
(* source).                                                                *)
(***************************************************************************)
EXTENDS Integers, Sequences, FiniteSets, TLC

VARIABLES
    args,                  \* the constructor's arguments
    plugin,                \* self: radii_in_km, lead_times, unweighted_mode
    cube,                  \* the caller's cube, the argument of process()
    cube_in,               \* the cube as it was when process() was called
    pc,                    \* the position in __init__ / process()
    exc,                   \* the exception raised, "none" while none is
    ranges,                \* process(): ranges
    kernel,                \* _apply_kernel_for_smoothing(): kernel
    required_lead_times,   \* process(): required_lead_times
    required_radii_in_km,  \* process(): required_radii_in_km
    todo,                  \* process(): what the for loop's zip still holds
    cube_slice,            \* process(): cube_slice
    cubes,                 \* process(): cubes
    result,                \* what process() returned
    calls                  \* the calls made so far, in order

vars == <<args, plugin, cube, cube_in, pc, exc, ranges, kernel,
          required_lead_times, required_radii_in_km, todo, cube_slice,
          cubes, result, calls>>

----------------------------------------------------------------------------
(* Bounds of the model. *)

MaxRange == 3
MaxRadiusKm == 2
MaxTimes == 2
MaxValue == 1
MaxListLen == 3
MaxLead == 9
GridY == 2
GridX == 3

----------------------------------------------------------------------------
(* Exact arithmetic. *)

Abs(a) == IF a < 0 THEN -a ELSE a

RECURSIVE Gcd(_, _)
Gcd(a, b) == IF b = 0 THEN a ELSE Gcd(b, a % b)

\* The rational n/d (d # 0) in lowest terms with a positive denominator.
Rat(n, d) ==
    LET g == Gcd(Abs(n), Abs(d))
        s == IF d < 0 THEN -1 ELSE 1
    IN  <<s * (n \div g), s * (d \div g)>>

NaN == <<0, 0>>
IsNaN(q) == q[2] = 0
RatInt(n) == <<n, 1>>
RatAdd(p, q) == Rat(p[1] * q[2] + q[1] * p[2], p[2] * q[2])
RatSub(p, q) == Rat(p[1] * q[2] - q[1] * p[2], p[2] * q[2])
RatMul(p, q) == Rat(p[1] * q[1], p[2] * q[2])
RatDiv(p, q) == Rat(p[1] * q[2], p[2] * q[1])
RatLess(p, q) == p[1] * q[2] < q[1] * p[2]
RatLeq(p, q) == p[1] * q[2] <= q[1] * p[2]

\* Python's int() of the quotient n/d, d > 0: truncation towards zero.
IntTrunc(n, d) == IF n >= 0 THEN n \div d ELSE -((-n) \div d)

----------------------------------------------------------------------------
(* numpy arrays: shape and C-order cells; multi-indices are 0-based. *)

RECURSIVE Prod(_, _)
Prod(shape, from) ==
    IF from > Len(shape) THEN 1 ELSE shape[from] * Prod(shape, from + 1)

Size(shape) == Prod(shape, 1)
Stride(shape, d) == Prod(shape, d + 1)

\* The multi-index of the k-th cell (k from 0) of an array of this shape.
Unravel(k, shape) ==
    [d \in 1..Len(shape) |-> (k \div Stride(shape, d)) % shape[d]]

RECURSIVE RavelFrom(_, _, _)
RavelFrom(idx, shape, d) ==
    IF d > Len(shape) THEN 0
    ELSE idx[d] * Stride(shape, d) + RavelFrom(idx, shape, d + 1)

\* The position (from 0) of the cell with this multi-index.
Ravel(idx, shape) == RavelFrom(idx, shape, 1)

At(a, idx) == a.flat[Ravel(idx, a.shape) + 1]

\* Whether numpy can broadcast an array of shape src into one of shape dst.
BroadcastOK(src, dst) ==
    /\ Len(src) <= Len(dst)
    /\ \A j \in 1..Len(src) :
          \/ src[j] = dst[Len(dst) - Len(src) + j]
          \/ src[j] = 1

\* The cell of src that broadcasting puts at multi-index idx of dst.
BroadcastIdx(src, dst, idx) ==
    [j \in 1..Len(src) |->
        IF src[j] = 1 THEN 0 ELSE idx[Len(dst) - Len(src) + j]]

----------------------------------------------------------------------------
(* Cubes and coordinates. *)

Coord(units, points) == [present |-> TRUE, units |-> units, points |-> points]
NoCoord == [present |-> FALSE, units |-> "", points |-> <<>>]
NoArray == [shape |-> <<>>, flat |-> <<>>]
NoKernel == [shape |-> <<>>, num |-> <<>>, den |-> 0]

\* The value of a name that is not bound (to a cube).
NoCube ==
    [dims |-> <<>>, data |-> NoArray, x |-> NoCoord, y |-> NoCoord,
     realization |-> 0, time |-> NoCoord, forecast_period |-> NoCoord,
     forecast_reference_time |-> NoCoord]

\* The factor between two units, <<0, 0>> when cf_units cannot convert.
UnitFactor(from, to) ==
    CASE from = to -> RatInt(1)
      [] from = "km" /\ to = "m" -> RatInt(1000)
      [] from = "seconds" /\ to = "hours" -> Rat(1, 3600)
      [] OTHER -> NaN

\* coord.convert_units(to): the coordinate converted, or a ValueError.
ConvertUnits(coord, to) ==
    LET f == UnitFactor(coord.units, to)
    IN  IF IsNaN(f) THEN [ok |-> FALSE, coord |-> coord]
        ELSE [ok |-> TRUE,
              coord |-> [coord EXCEPT
                  !.units = to,
                  !.points = [i \in 1..Len(coord.points) |->
                                 RatMul(coord.points[i], f)]]]

----------------------------------------------------------------------------
(* The exceptions. *)

None == "none"
MismatchError == "ValueError: mismatch in the number of radii and lead times"
LenTypeError == "TypeError: object of type 'float' has no len()"
RealizationError == "ValueError: Does not operate across realizations."
NaNError == "ValueError: NaN detected in input cube data"
InvalidGridError == "ValueError: Invalid grid: projection_x/y coords required"
UnitsError == "ValueError: unable to convert units"
ZeroExtentError == "ValueError: radius gives zero cell extent"
NegativeExtentError == "ValueError: radius gives a negative cell extent"
MaxExtentError == "ValueError: radius exceeds maximum grid cell extent"
ForecastPeriodError == "ValueError: For forecast_period"
TimeError == "ValueError: For time/forecast_reference_time"
NotFoundError == "CoordinateNotFoundError"
BroadcastError == "ValueError: could not broadcast input array"
EmptyInterpError == "ValueError: array of sample points is empty"
ListRadiusError == "TypeError: only length-1 arrays can be converted"

RadiusExtentErrors == {ZeroExtentError, NegativeExtentError, MaxExtentError}
DataValidityErrors == {RealizationError, NaNError}

----------------------------------------------------------------------------
(* BasicNeighbourhoodProcessing *)

MAX_KERNEL_CELL_RADIUS == 500

NoPlugin ==
    [radii_in_km |-> [is_list |-> FALSE, v |-> <<>>],
     lead_times |-> [is_none |-> TRUE, v |-> <<>>],
     unweighted_mode |-> FALSE]

\* __init__(radii_in_km, lead_times, unweighted_mode): the exception raised
\* and the attributes set.  A single radius is held as is_list = FALSE and a
\* one-element v; len() of it is a TypeError.
init(a) ==
    IF a.lead_times.is_none
    THEN [exc |-> None,
          self |-> [radii_in_km |-> a.radii_in_km,
                    lead_times |-> a.lead_times,
                    unweighted_mode |-> a.unweighted_mode]]
    ELSE IF ~a.radii_in_km.is_list
    THEN [exc |-> LenTypeError, self |-> NoPlugin]
    ELSE IF Len(a.radii_in_km.v) # Len(a.lead_times.v)
    THEN [exc |-> MismatchError, self |-> NoPlugin]
    ELSE [exc |-> None,
          self |-> [radii_in_km |-> a.radii_in_km,
                    lead_times |-> a.lead_times,
                    unweighted_mode |-> a.unweighted_mode]]

\* a - b with numpy's broadcasting of a one-element array.
BroadcastSub(a, b) ==
    [i \in 1..(IF Len(a) > Len(b) THEN Len(a) ELSE Len(b)) |->
        RatSub(IF Len(a) = 1 THEN a[1] ELSE a[i],
               IF Len(b) = 1 THEN b[1] ELSE b[i])]

\* _find_required_lead_times(cube): the exception, the cube as the call
\* leaves it (convert_units converts the cube's own coordinate) and the
\* lead times.
find_required_lead_times(c) ==
    IF c.forecast_period.present
    THEN LET fp == ConvertUnits(c.forecast_period, "hours")
         IN  IF ~fp.ok
             THEN [exc |-> ForecastPeriodError, cube |-> c, lead_times |-> <<>>]
             ELSE [exc |-> None,
                   cube |-> [c EXCEPT !.forecast_period = fp.coord],
                   lead_times |-> fp.coord.points]
    ELSE IF c.time.present /\ c.forecast_reference_time.present
    THEN LET t == ConvertUnits(c.time, "hours")
             c1 == [c EXCEPT !.time = t.coord]
             frt == ConvertUnits(c.forecast_reference_time, "hours")
             c2 == [c1 EXCEPT !.forecast_reference_time = frt.coord]
         IN  IF ~t.ok
             THEN [exc |-> TimeError, cube |-> c, lead_times |-> <<>>]
             ELSE IF ~frt.ok
             THEN [exc |-> TimeError, cube |-> c1, lead_times |-> <<>>]
             ELSE [exc |-> None, cube |-> c2,
                   lead_times |-> BroadcastSub(t.coord.points,
                                               frt.coord.points)]
    ELSE [exc |-> NotFoundError, cube |-> c, lead_times |-> <<>>]

\* The cells rounded to the nearest whole number, not truncated.
GridCellsRounded(radius_in_km, spacing) ==
    LET n == radius_in_km[1] * 1000 * spacing[2]
        d == radius_in_km[2] * Abs(spacing[1])
    IN  IntTrunc(2 * n + d, 2 * d)

\* int(radius_in_km * 1000 / abs(spacing)) for a rational radius and spacing.
GridCells(radius_in_km, spacing) ==
    IntTrunc(radius_in_km[1] * 1000 * spacing[2],
             radius_in_km[2] * Abs(spacing[1]))

\* The guards without the one on a zero extent.
ExtentGuardLax(grid_cells_x, grid_cells_y) ==
    IF grid_cells_x < 0 \/ grid_cells_y < 0 THEN NegativeExtentError
    ELSE IF \/ grid_cells_x > MAX_KERNEL_CELL_RADIUS
            \/ grid_cells_y > MAX_KERNEL_CELL_RADIUS
    THEN MaxExtentError
    ELSE None

\* Lines 191-209: the three guards of _get_grid_x_y_kernel_ranges on the
\* two cell counts.
ExtentGuard(grid_cells_x, grid_cells_y) ==
    IF grid_cells_x = 0 \/ grid_cells_y = 0 THEN ZeroExtentError
    ELSE IF grid_cells_x < 0 \/ grid_cells_y < 0 THEN NegativeExtentError
    ELSE IF \/ grid_cells_x > MAX_KERNEL_CELL_RADIUS
            \/ grid_cells_y > MAX_KERNEL_CELL_RADIUS
    THEN MaxExtentError
    ELSE None

\* _get_grid_x_y_kernel_ranges(cube, radius_in_km): the exception and the
\* ranges (grid_cells_x, grid_cells_y).  The coordinates are copied before
\* they are converted: the cube is left as it is.  radius_in_km is a number
\* or, when self.radii_in_km is a list and no lead times are given, a list:
\* int() of list * 1000 / spacing is a TypeError.
get_grid_x_y_kernel_ranges(c, radius_in_km) ==
    IF ~c.x.present \/ ~c.y.present
    THEN [exc |-> InvalidGridError, ranges |-> <<>>]
    ELSE LET x_coord == ConvertUnits(c.x, "m")
             y_coord == ConvertUnits(c.y, "m")
             d_north_metres ==
                 RatSub(y_coord.coord.points[2], y_coord.coord.points[1])
             d_east_metres ==
                 RatSub(x_coord.coord.points[2], x_coord.coord.points[1])
             grid_cells_y == GridCells(radius_in_km.v[1], d_north_metres)
             grid_cells_x == GridCells(radius_in_km.v[1], d_east_metres)
             e == ExtentGuard(grid_cells_x, grid_cells_y)
         IN  IF ~x_coord.ok \/ ~y_coord.ok
             THEN [exc |-> UnitsError, ranges |-> <<>>]
             ELSE IF radius_in_km.is_list
             THEN [exc |-> ListRadiusError, ranges |-> <<>>]
             ELSE IF e # None THEN [exc |-> e, ranges |-> <<>>]
             ELSE [exc |-> None, ranges |-> <<grid_cells_x, grid_cells_y>>]

----------------------------------------------------------------------------
(* _apply_kernel_for_smoothing *)

\* cube.coord_dims(name)[0]: the data dimension of a coordinate.
CoordDim(c, name) == CHOOSE d \in 1..Len(c.dims) : c.dims[d] = name

\* fullranges: ranges[0] at the x dimension, ranges[1] at the y dimension,
\* 0 at every other one.
FullRanges(c, rs) ==
    LET axes == <<CoordDim(c, "x"), CoordDim(c, "y")>>
    IN  [d \in 1..Len(c.dims) |->
            IF d = axes[2] THEN rs[2] ELSE IF d = axes[1] THEN rs[1] ELSE 0]

KernelShape(c, rs) ==
    LET fullranges == FullRanges(c, rs)
    IN  [d \in 1..Len(c.dims) |-> 1 + fullranges[d] * 2]

\* np.sum([x ** 2 for x in open_grid]): the two open grids, of shapes
\* (2*ranges[0]+1, 1) and (1, 2*ranges[1]+1), squared and added with
\* broadcasting.
OpenGridSum(rs) ==
    LET shape == <<2 * rs[1] + 1, 2 * rs[2] + 1>>
    IN  [shape |-> shape,
         flat |-> [k \in 1..Size(shape) |->
                      LET idx == Unravel(k - 1, shape)
                      IN  (idx[1] - rs[1]) * (idx[1] - rs[1])
                          + (idx[2] - rs[2]) * (idx[2] - rs[2])]]

\* np.cumprod(ranges)[-1]
CumProdLast(rs) == rs[1] * rs[2]

\* Lines 250-254 and 264: the mask is the comparison's cells, in C order,
\* reshaped to the kernel's shape; masked cells are 0, the others 1.
UnweightedKernel(c, rs) ==
    LET shape == KernelShape(c, rs)
        sum == OpenGridSum(rs)
    IN  [exc |-> None,
         kernel |-> [shape |-> shape,
                     num |-> [k \in 1..Size(shape) |->
                                 IF sum.flat[k] > CumProdLast(rs)
                                 THEN 0 ELSE 1],
                     den |-> 1]]

\* Lines 255-264: kernel[:] = ... broadcasts the weights into the kernel, a
\* ValueError when the shapes do not allow it; negative weights are then 0.
\* The weights are num / den with den = np.cumprod(ranges)[-1].
WeightedKernel(c, rs) ==
    LET shape == KernelShape(c, rs)
        sum == OpenGridSum(rs)
    IN  IF ~BroadcastOK(sum.shape, shape)
        THEN [exc |-> BroadcastError, kernel |-> NoKernel]
        ELSE [exc |-> None,
              kernel |->
                  [shape |-> shape,
                   num |-> [k \in 1..Size(shape) |->
                       LET idx == Unravel(k - 1, shape)
                           raw == CumProdLast(rs)
                                  - At(sum, BroadcastIdx(sum.shape, shape, idx))
                       IN  IF raw < 0 THEN 0 ELSE raw],
                   den |-> CumProdLast(rs)]]

\* Lines 234-264: the exception and the kernel built for a cube.
BuildKernel(c, rs, unweighted_mode) ==
    IF ~c.x.present \/ ~c.y.present
    THEN [exc |-> InvalidGridError, kernel |-> NoKernel]
    ELSE IF unweighted_mode THEN UnweightedKernel(c, rs)
    ELSE WeightedKernel(c, rs)

\* The sum of the integers s[lo..hi], by halves.
RECURSIVE SumInts(_, _, _)
SumInts(s, lo, hi) ==
    IF lo > hi THEN 0
    ELSE IF lo = hi THEN s[lo]
    ELSE LET mid == (lo + hi) \div 2
         IN  SumInts(s, lo, mid) + SumInts(s, mid + 1, hi)

\* np.sum(kernel)
KernelSum(k) == Rat(SumInts(k.num, 1, Len(k.num)), k.den)

Clip(i, n) == IF i < 0 THEN 0 ELSE IF i >= n THEN n - 1 ELSE i

\* The input cell that kernel cell kidx reads for output cell oidx, with
\* mode='nearest': an index beyond the edge reads the edge cell.
Neighbour(data, k, oidx, kidx) ==
    [d \in 1..Len(data.shape) |->
        Clip(oidx[d] + kidx[d] - (k.shape[d] \div 2), data.shape[d])]

\* The sum of the rationals s[lo..hi], by halves.
RECURSIVE SumRats(_, _, _)
SumRats(s, lo, hi) ==
    IF lo = hi THEN s[lo]
    ELSE LET mid == (lo + hi) \div 2
         IN  RatAdd(SumRats(s, lo, mid), SumRats(s, mid + 1, hi))

\* scipy.ndimage.filters.correlate(data, kernel, mode='nearest'): each
\* output cell is the sum, over the kernel's cells, of the weight times the
\* input cell at the kernel cell's offset from the kernel's centre.
Correlate(data, k) ==
    LET kidx == [j \in 1..Len(k.num) |-> Unravel(j - 1, k.shape)]
        weight == [j \in 1..Len(k.num) |-> Rat(k.num[j], k.den)]
    IN  [shape |-> data.shape,
         flat |-> [o \in 1..Size(data.shape) |->
             LET oidx == Unravel(o - 1, data.shape)
                 terms == [j \in 1..Len(k.num) |->
                     IF k.num[j] = 0 THEN RatInt(0)
                     ELSE RatMul(weight[j],
                              At(data, Neighbour(data, k, oidx, kidx[j])))]
             IN  SumRats(terms, 1, Len(terms))]]

\* Lines 266-267: the correlation divided by np.sum(kernel); a division by
\* zero leaves no number in the cell.
Smooth(data, k) ==
    LET corr == Correlate(data, k)
        total == KernelSum(k)
    IN  [shape |-> data.shape,
         flat |-> [o \in 1..Size(data.shape) |->
                      IF total[1] = 0 THEN NaN
                      ELSE RatDiv(corr.flat[o], total)]]

----------------------------------------------------------------------------
(* process: the pieces of the schedule branch. *)

\* np.interp(x, xp, fp) at one point, for increasing xp.
RECURSIVE InterpFrom(_, _, _, _)
InterpFrom(x, xp, fp, j) ==
    IF j + 1 > Len(xp) \/ RatLess(x, xp[j + 1])
    THEN IF j + 1 > Len(xp) THEN fp[Len(fp)]
         ELSE RatAdd(fp[j],
                 RatMul(RatDiv(RatSub(fp[j + 1], fp[j]),
                               RatSub(xp[j + 1], xp[j])),
                        RatSub(x, xp[j])))
    ELSE InterpFrom(x, xp, fp, j + 1)

InterpNoClamp(x, xp, fp) ==
    LET j == IF RatLess(x, xp[1]) \/ Len(xp) = 1 THEN 1
             ELSE IF RatLeq(xp[Len(xp)], x) THEN Len(xp) - 1
             ELSE CHOOSE i \in 1..(Len(xp) - 1) :
                      RatLeq(xp[i], x) /\ RatLess(x, xp[i + 1])
    IN  IF Len(xp) = 1 THEN fp[1]
        ELSE RatAdd(fp[j],
                RatMul(RatDiv(RatSub(fp[j + 1], fp[j]),
                              RatSub(xp[j + 1], xp[j])),
                       RatSub(x, xp[j])))

Interp1(x, xp, fp) ==
    IF RatLess(x, xp[1]) THEN fp[1]
    ELSE IF RatLess(xp[Len(xp)], x) THEN fp[Len(fp)]
    ELSE InterpFrom(x, xp, fp, 1)

\* np.interp(required_lead_times, self.lead_times, self.radii_in_km)
NpInterp(xs, xp, fp) ==
    IF Len(xp) = 0 THEN [exc |-> EmptyInterpError, radii |-> <<>>]
    ELSE [exc |-> None,
          radii |-> [i \in 1..Len(xs) |-> Interp1(xs[i], xp, fp)]]

HasTimeDim(c) == Len(c.dims) > 0 /\ c.dims[1] = "time"

\* The points of a coordinate that belong to time index i: the i-th when the
\* coordinate runs along the time dimension, all of them when it is scalar.
SlicePoints(coord, n, i) ==
    IF coord.present /\ Len(coord.points) = n
    THEN [coord EXCEPT !.points = <<coord.points[i]>>]
    ELSE coord

\* The i-th of cube.slices_over("time"): a copy without the time dimension.
\* Slicing over a scalar time coordinate gives the one slice, the whole cube.
TimeSlice(c, i) ==
    IF ~HasTimeDim(c) THEN c
    ELSE LET n == c.data.shape[1]
             shape == Tail(c.data.shape)
         IN  [c EXCEPT
                 !.dims = Tail(c.dims),
                 !.data = [shape |-> shape,
                           flat |-> [k \in 1..Size(shape) |->
                               c.data.flat[(i - 1) * Size(shape) + k]]],
                 !.time = SlicePoints(c.time, n, i),
                 !.forecast_period = SlicePoints(c.forecast_period, n, i),
                 !.forecast_reference_time =
                     SlicePoints(c.forecast_reference_time, n, i)]

SliceCount(c) == IF HasTimeDim(c) THEN c.data.shape[1] ELSE 1

\* list(cube.slices_over("time"))
SlicesOver(c) == [i \in 1..SliceCount(c) |-> TimeSlice(c, i)]

\* zip(a, b): as long as the shorter of the two.
Zip(a, b) ==
    [i \in 1..(IF Len(a) < Len(b) THEN Len(a) ELSE Len(b)) |->
        [cube_slice |-> a[i], radius_in_km |-> b[i]]]

\* iris.util.new_axis(cube_slice, "time"): time becomes the leading
\* dimension, of length 1.
NewAxis(c) ==
    [c EXCEPT !.dims = <<"time">> \o c.dims,
              !.data = [shape |-> <<1>> \o c.data.shape, flat |-> c.data.flat]]

RECURSIVE ConcatFlat(_, _)
ConcatFlat(cs, k) ==
    IF k = 0 THEN <<>> ELSE ConcatFlat(cs, k - 1) \o cs[k].data.flat

RECURSIVE ConcatPoints(_, _, _)
ConcatPoints(cs, name, k) ==
    IF k = 0 THEN <<>>
    ELSE ConcatPoints(cs, name, k - 1)
         \o (CASE name = "time" -> cs[k].time.points
               [] name = "forecast_period" -> cs[k].forecast_period.points
               [] OTHER -> cs[k].forecast_reference_time.points)

\* A coordinate of the concatenated cube: the slices' points one after the
\* other when they differ from slice to slice, the common points otherwise.
ConcatCoord(cs, name, coord) ==
    IF ~coord.present THEN coord
    ELSE LET all == ConcatPoints(cs, name, Len(cs))
         IN  IF name # "time" /\ \A i \in 1..Len(all) : all[i] = all[1]
             THEN coord
             ELSE [coord EXCEPT !.points = all]

\* concatenate_cubes(cubes): the slices joined along time, in the order of
\* the list.
concatenate_cubes(cs) ==
    [cs[1] EXCEPT
        !.data = [shape |-> <<Len(cs)>> \o Tail(cs[1].data.shape),
                  flat |-> ConcatFlat(cs, Len(cs))],
        !.time = ConcatCoord(cs, "time", cs[1].time),
        !.forecast_period =
            ConcatCoord(cs, "forecast_period", cs[1].forecast_period),
        !.forecast_reference_time =
            ConcatCoord(cs, "forecast_reference_time",
                        cs[1].forecast_reference_time)]

----------------------------------------------------------------------------
(* The steps of __init__ and of process. *)

Single(r) == [is_list |-> FALSE, v |-> <<r>>]
List(rs) == [is_list |-> TRUE, v |-> rs]
NoLeadTimes == [is_none |-> TRUE, v |-> <<>>]
LeadTimes(ts) == [is_none |-> FALSE, v |-> ts]

Call(fn, slice, radius_in_km, rs) ==
    [fn |-> fn, slice |-> slice, radius_in_km |-> radius_in_km, ranges |-> rs]

Raise(e) ==
    /\ exc' = e
    /\ pc' = "raised"

\* Lines 84-95.
Construct ==
    /\ pc = "init"
    /\ LET r == init(args)
       IN  /\ plugin' = r.self
           /\ exc' = r.exc
           /\ pc' = IF r.exc = None THEN "constructed" ELSE "raised"
    /\ UNCHANGED <<args, cube, cube_in, ranges, kernel, required_lead_times,
                   required_radii_in_km, todo, cube_slice, cubes, result,
                   calls>>

HasNaN(data) == \E k \in 1..Len(data.flat) : IsNaN(data.flat[k])

\* The checks without the one on the realization coordinate.
ValidateNaNOnly(c) ==
    IF HasNaN(c.data) THEN NaNError
    ELSE None

\* Lines 286-294: the exception of the checks on the cube.
Validate(c) ==
    IF c.realization > 1 THEN RealizationError
    ELSE IF HasNaN(c.data) THEN NaNError
    ELSE None

ProcessValidate ==
    /\ pc = "process"
    /\ LET e == Validate(cube)
       IN  IF e # None THEN Raise(e)
           ELSE /\ pc' = IF plugin.lead_times.is_none
                         THEN "constant" ELSE "schedule"
                /\ exc' = exc
    /\ UNCHANGED <<args, plugin, cube, cube_in, ranges, kernel,
                   required_lead_times, required_radii_in_km, todo,
                   cube_slice, cubes, result, calls>>

\* Lines 297-298.
ConstantRanges ==
    /\ pc = "constant"
    /\ LET radii_in_km == plugin.radii_in_km
           r == get_grid_x_y_kernel_ranges(cube, radii_in_km)
       IN  /\ calls' = Append(calls, Call("ranges", 0, radii_in_km, <<>>))
           /\ IF r.exc # None THEN Raise(r.exc) /\ ranges' = ranges
              ELSE /\ ranges' = r.ranges
                   /\ pc' = "constant_kernel"
                   /\ exc' = exc
    /\ UNCHANGED <<args, plugin, cube, cube_in, kernel, required_lead_times,
                   required_radii_in_km, todo, cube_slice, cubes, result>>

\* Line 299, lines 234-264 of _apply_kernel_for_smoothing(cube, ranges).
ConstantKernel ==
    /\ pc = "constant_kernel"
    /\ LET r == BuildKernel(cube, ranges, plugin.unweighted_mode)
       IN  /\ calls' = Append(calls, Call("kernel", 0, <<>>, ranges))
           /\ IF r.exc # None THEN Raise(r.exc) /\ kernel' = kernel
              ELSE /\ kernel' = r.kernel
                   /\ pc' = "constant_smooth"
                   /\ exc' = exc
    /\ UNCHANGED <<args, plugin, cube, cube_in, ranges, required_lead_times,
                   required_radii_in_km, todo, cube_slice, cubes, result>>

\* Lines 266-268 of _apply_kernel_for_smoothing(cube, ranges), which sets
\* the data of the caller's cube, and the return of line 318.
ConstantSmooth ==
    /\ pc = "constant_smooth"
    /\ cube' = [cube EXCEPT !.data = Smooth(cube.data, kernel)]
    /\ result' = cube'
    /\ pc' = "returned"
    /\ UNCHANGED <<args, plugin, cube_in, exc, ranges, kernel,
                   required_lead_times, required_radii_in_km, todo,
                   cube_slice, cubes, calls>>

\* Line 301.
RequiredLeadTimes ==
    /\ pc = "schedule"
    /\ LET r == find_required_lead_times(cube)
       IN  /\ cube' = r.cube
           /\ required_lead_times' = r.lead_times
           /\ IF r.exc # None THEN Raise(r.exc)
              ELSE pc' = "interp" /\ exc' = exc
    /\ UNCHANGED <<args, plugin, cube_in, ranges, kernel,
                   required_radii_in_km, todo, cube_slice, cubes, result,
                   calls>>

\* Lines 303-310: the radii, the empty list of cubes and the pairs of the
\* loop; slices_over raises when the cube has no time coordinate.
Interpolate ==
    /\ pc = "interp"
    /\ LET r == NpInterp(required_lead_times, plugin.lead_times.v,
                         plugin.radii_in_km.v)
       IN  IF r.exc # None
           THEN /\ Raise(r.exc)
                /\ UNCHANGED <<required_radii_in_km, todo, cubes>>
           ELSE /\ required_radii_in_km' = r.radii
                /\ cubes' = <<>>
                /\ IF ~cube.time.present
                   THEN Raise(NotFoundError) /\ todo' = todo
                   ELSE /\ todo' = Zip(SlicesOver(cube), r.radii)
                        /\ pc' = "loop"
                        /\ exc' = exc
    /\ UNCHANGED <<args, plugin, cube, cube_in, ranges, kernel,
                   required_lead_times, cube_slice, result, calls>>

\* Lines 309-312: the next pair of the loop.
SliceRanges ==
    /\ pc = "loop"
    /\ todo # <<>>
    /\ LET radius_in_km == Single(Head(todo).radius_in_km)
           r == get_grid_x_y_kernel_ranges(Head(todo).cube_slice, radius_in_km)
       IN  /\ cube_slice' = Head(todo).cube_slice
           /\ calls' = Append(calls,
                  Call("ranges", Len(cubes) + 1, radius_in_km, <<>>))
           /\ IF r.exc # None THEN Raise(r.exc) /\ ranges' = ranges
              ELSE /\ ranges' = r.ranges
                   /\ pc' = "slice_kernel"
                   /\ exc' = exc
    /\ todo' = Tail(todo)
    /\ UNCHANGED <<args, plugin, cube, cube_in, kernel, required_lead_times,
                   required_radii_in_km, cubes, result>>

\* Lines 313-314, lines 234-264 of
\* _apply_kernel_for_smoothing(cube_slice, ranges).
SliceKernel ==
    /\ pc = "slice_kernel"
    /\ LET r == BuildKernel(cube_slice, ranges, plugin.unweighted_mode)
       IN  /\ calls' = Append(calls,
                  Call("kernel", Len(cubes) + 1, <<>>, ranges))
           /\ IF r.exc # None THEN Raise(r.exc) /\ kernel' = kernel
              ELSE /\ kernel' = r.kernel
                   /\ pc' = "slice_smooth"
                   /\ exc' = exc
    /\ UNCHANGED <<args, plugin, cube, cube_in, ranges, required_lead_times,
                   required_radii_in_km, todo, cube_slice, cubes, result>>

\* Lines 266-268 of _apply_kernel_for_smoothing(cube_slice, ranges) and
\* lines 315-316.
SliceSmooth ==
    /\ pc = "slice_smooth"
    /\ cube_slice' =
           NewAxis([cube_slice EXCEPT !.data = Smooth(cube_slice.data, kernel)])
    /\ cubes' = Append(cubes, cube_slice')
    /\ pc' = "loop"
    /\ UNCHANGED <<args, plugin, cube, cube_in, exc, ranges, kernel,
                   required_lead_times, required_radii_in_km, todo, result,
                   calls>>

\* Lines 317-318, once the loop has ended.
Concatenate ==
    /\ pc = "loop"
    /\ todo = <<>>
    /\ result' = concatenate_cubes(cubes)
    /\ pc' = "returned"
    /\ UNCHANGED <<args, plugin, cube, cube_in, exc, ranges, kernel,
                   required_lead_times, required_radii_in_km, todo,
                   cube_slice, cubes, calls>>

----------------------------------------------------------------------------
(* The inputs. *)

Ints(s) == [i \in 1..Len(s) |-> RatInt(s[i])]
Scaled(s, f) == [i \in 1..Len(s) |-> s[i] * f]
Shifted(s, a) == [i \in 1..Len(s) |-> s[i] + a]

\* A field: every cell v, or the cells 1, 2, 3, ... in C order, or those
\* with a NaN in the last cell.
Field(kind, shape) ==
    [shape |-> shape,
     flat |-> [k \in 1..Size(shape) |->
                  CASE kind[1] = "const" -> RatInt(kind[2])
                    [] kind[1] = "nan" /\ k = Size(shape) -> NaN
                    [] OTHER -> RatInt(k)]]

\* The time, forecast_period and forecast_reference_time coordinates of a
\* cube whose slices have the lead times leads (hours); the reference time
\* is hour 100 where it is one point.
TimeCoords(meta, leads) ==
    LET time == Coord("hours", Ints(Shifted(leads, 100)))
        frt == Coord("hours", Ints(<<100>>))
        fp == Coord("hours", Ints(leads))
    IN  CASE meta = "fp_hours" -> <<time, fp, frt>>
          [] meta = "fp_seconds" ->
                <<time, Coord("seconds", Ints(Scaled(leads, 3600))), frt>>
          [] meta = "fp_bad" -> <<time, Coord("1", Ints(leads)), frt>>
          [] meta = "fp_scalar" ->
                <<time, Coord("hours", Ints(<<leads[1]>>)),
                  Coord("hours", Ints(Shifted(leads, 100 - leads[1])))>>
          [] meta = "time_frt" -> <<time, NoCoord, frt>>
          [] meta = "time_seconds_frt_bad" ->
                <<Coord("seconds", Ints(Scaled(Shifted(leads, 100), 3600))),
                  NoCoord, Coord("1", Ints(<<100>>))>>
          [] meta = "no_lead_time" -> <<time, NoCoord, NoCoord>>
          [] OTHER -> <<NoCoord, fp, frt>>

Metas ==
    {"fp_hours", "fp_seconds", "fp_bad", "fp_scalar", "time_frt",
     "time_seconds_frt_bad", "no_lead_time", "no_time"}

\* A cube of one slice has a scalar time coordinate and the dimensions
\* order; a cube of more has time as its leading dimension.
MakeCube(order, grid, leads, kind, xc, yc, rz, meta) ==
    LET n == Len(leads)
        spatial == [d \in 1..2 |-> IF order[d] = "y" THEN grid[1] ELSE grid[2]]
        tc == TimeCoords(meta, leads)
    IN  [dims |-> IF n = 1 THEN order ELSE <<"time">> \o order,
         data |-> Field(kind, IF n = 1 THEN spatial ELSE <<n>> \o spatial),
         x |-> xc, y |-> yc, realization |-> rz,
         time |-> tc[1], forecast_period |-> tc[2],
         forecast_reference_time |-> tc[3]]

Orders == {<<"y", "x">>, <<"x", "y">>}

\* The lead times of the slices of a cube with n of them: -3, 3, 9, ...
SliceLeads(n) == [i \in 1..n |-> 6 * i - 9]
LeadSets == {SliceLeads(n) : n \in {1} \cup 2..MaxTimes}

FieldKinds ==
    {<<"const", v>> : v \in 1..MaxValue} \cup {<<"ramp", 0>>, <<"nan", 0>>}

XCoords ==
    {Coord("m", Ints(<<0, 1000>>)), Coord("km", Ints(<<0, 2>>)),
     Coord("degrees", Ints(<<0, 1>>)), NoCoord}
YCoords == {Coord("m", Ints(<<0, 1000>>)), Coord("m", Ints(<<2000, 0>>))}

\* A cube without a time coordinate has no time dimension either.
MetasFor(leads) == {m \in Metas : m = "no_time" => Len(leads) = 1}

Cubes ==
    UNION {{MakeCube(o, <<GridY, GridX>>, l, k, xc, yc, rz, m) :
               o \in Orders, k \in FieldKinds, xc \in XCoords,
               yc \in YCoords, rz \in 0..2, m \in MetasFor(l)} :
           l \in LeadSets}

\* A radius none of the grids allows: more than MAX_KERNEL_CELL_RADIUS cells
\* of 2 km.
ExceedingRadiusKm == 2 * (MAX_KERNEL_CELL_RADIUS + 1)

ConstantRadii ==
    {Single(RatInt(r)) : r \in (-1..MaxRadiusKm) \cup {ExceedingRadiusKm}}
    \cup {List(Ints(<<1>>))}

Schedules ==
    {<<LeadTimes(Ints(<<0, 6>>)),
       List(Ints(<<2, MaxRadiusKm + 1>>))>>,
     <<LeadTimes(Ints(<<0, 6>>)),
       List(Ints(<<MaxRadiusKm, -MaxRadiusKm>>))>>,
     <<LeadTimes(<<>>), List(<<>>)>>}

\* The plugins the constructor makes.
Plugins ==
    {[radii_in_km |-> r, lead_times |-> NoLeadTimes, unweighted_mode |-> u] :
        r \in ConstantRadii, u \in BOOLEAN}
    \cup
    {[radii_in_km |-> s[2], lead_times |-> s[1], unweighted_mode |-> u] :
        s \in Schedules, u \in BOOLEAN}

Idle ==
    /\ exc = None
    /\ kernel = NoKernel
    /\ required_lead_times = <<>>
    /\ required_radii_in_km = <<>>
    /\ todo = <<>>
    /\ cube_slice = NoCube
    /\ cubes = <<>>
    /\ result = NoCube
    /\ calls = <<>>

----------------------------------------------------------------------------
(* process(cube) of a constructed plugin. *)

Init ==
    /\ plugin \in Plugins
    /\ args = plugin
    /\ init(args).exc = None
    /\ cube \in Cubes
    /\ cube_in = cube
    /\ pc = "process"
    /\ ranges = <<>>
    /\ Idle

Next ==
    \/ ProcessValidate
    \/ ConstantRanges
    \/ ConstantKernel
    \/ ConstantSmooth
    \/ RequiredLeadTimes
    \/ Interpolate
    \/ SliceRanges
    \/ SliceKernel
    \/ SliceSmooth
    \/ Concatenate

Spec == Init /\ [][Next]_vars

----------------------------------------------------------------------------
(* __init__ on its arguments. *)

Counting(n) == [i \in 1..n |-> i]

RadiiArgs ==
    {Single(RatInt(r)) : r \in 1..MaxRadiusKm}
    \cup {List(Ints(Counting(n))) : n \in 0..MaxListLen}

LeadTimesArgs ==
    {NoLeadTimes}
    \cup {LeadTimes(Ints(Scaled(Counting(n), 6))) : n \in 0..MaxListLen}

InitInit ==
    /\ args \in [radii_in_km : RadiiArgs, lead_times : LeadTimesArgs,
                 unweighted_mode : BOOLEAN]
    /\ plugin = NoPlugin
    /\ cube = NoCube
    /\ cube_in = NoCube
    /\ pc = "init"
    /\ ranges = <<>>
    /\ Idle

NextInit == Construct

SpecInit == InitInit /\ [][NextInit]_vars

----------------------------------------------------------------------------
(* _get_grid_x_y_kernel_ranges on a grid and a radius: process, from line  *)
(* 297 to line 298, of a plugin with one radius.                           *)

Spacings ==
    {Coord("m", Ints(<<0, 1000>>)), Coord("m", Ints(<<1000, 0>>)),
     Coord("m", Ints(<<0, 700>>)), Coord("km", Ints(<<0, 1>>)),
     Coord("km", Ints(<<0, 2>>))}

\* Halves of a kilometre around 0 and the radii around the largest allowed.
ResolveRadii ==
    {Rat(k, 2) : k \in (-2)..(2 * MaxRadiusKm + 1)}
    \cup {RatInt(r) :
             r \in (MAX_KERNEL_CELL_RADIUS - 1)..(MAX_KERNEL_CELL_RADIUS + 1)}
    \cup {Rat(2 * MAX_KERNEL_CELL_RADIUS + 1, 2)}

InitResolve ==
    /\ plugin \in {[radii_in_km |-> Single(r), lead_times |-> NoLeadTimes,
                    unweighted_mode |-> FALSE] : r \in ResolveRadii}
    /\ args = plugin
    /\ cube \in {MakeCube(<<"y", "x">>, <<GridY, GridX>>, <<3>>,
                          <<"const", 1>>, xc, yc, 0, "fp_hours") :
                    xc \in Spacings, yc \in Spacings}
    /\ cube_in = cube
    /\ pc = "constant"
    /\ ranges = <<>>
    /\ Idle

NextResolve == ConstantRanges

SpecResolve == InitResolve /\ [][NextResolve]_vars

----------------------------------------------------------------------------
(* _apply_kernel_for_smoothing on a cube and ranges: process, from line    *)
(* 299, of a plugin with one radius.                                       *)

SmoothCubes ==
    {MakeCube(o, g, l, k, Coord("m", Ints(<<0, 1000>>)),
              Coord("m", Ints(<<0, 1000>>)), 0, "fp_hours") :
        o \in Orders, g \in {<<GridY, GridX>>, <<5, 5>>}, l \in LeadSets,
        k \in {<<"const", v>> : v \in 1..MaxValue} \cup {<<"ramp", 0>>}}

InitSmooth ==
    /\ plugin \in {[radii_in_km |-> Single(RatInt(1)),
                    lead_times |-> NoLeadTimes, unweighted_mode |-> u] :
                      u \in BOOLEAN}
    /\ args = plugin
    /\ cube \in SmoothCubes
    /\ cube_in = cube
    /\ pc = "constant_kernel"
    /\ ranges \in (1..MaxRange) \X (1..MaxRange)
    /\ Idle

NextSmooth ==
    \/ ConstantKernel
    \/ ConstantSmooth

SpecSmooth == InitSmooth /\ [][NextSmooth]_vars

----------------------------------------------------------------------------
(* np.interp on the lead times of a cube and a schedule: process, from     *)
(* line 303 to line 310.                                                   *)

InterpSchedules ==
    {<<LeadTimes(Ints(<<0, 6>>)), List(Ints(<<10, 30>>))>>,
     <<LeadTimes(Ints(<<0, 2, 6>>)), List(Ints(<<1, 3, 2>>))>>,
     <<LeadTimes(Ints(<<-2, 0, 4, 8>>)), List(Ints(<<4, 4, 1, 7>>))>>,
     <<LeadTimes(Ints(<<3>>)), List(Ints(<<5>>))>>}

InterpLeads ==
    {<<t>> : t \in (-MaxLead)..MaxLead}
    \cup {<<t, t + 3>> : t \in (-MaxLead)..MaxLead}

InitInterp ==
    /\ plugin \in {[radii_in_km |-> s[2], lead_times |-> s[1],
                    unweighted_mode |-> FALSE] : s \in InterpSchedules}
    /\ args = plugin
    /\ cube \in {MakeCube(<<"y", "x">>, <<GridY, GridX>>, l, <<"const", 1>>,
                          Coord("m", Ints(<<0, 1000>>)),
                          Coord("m", Ints(<<0, 1000>>)), 0, "fp_hours") :
                    l \in InterpLeads}
    /\ cube_in = cube
    /\ pc = "interp"
    /\ ranges = <<>>
    /\ exc = None
    /\ kernel = NoKernel
    /\ required_lead_times = cube.forecast_period.points
    /\ required_radii_in_km = <<>>
    /\ todo = <<>>
    /\ cube_slice = NoCube
    /\ cubes = <<>>
    /\ result = NoCube
    /\ calls = <<>>

NextInterp == Interpolate

SpecInterp == InitInterp /\ [][NextInterp]_vars

----------------------------------------------------------------------------
(* The claims. *)

\* floor(n / d) for d > 0.
Floor(n, d) == n \div d

\* The spacing of a coordinate in metres: the difference of its first two
\* points, as a rational.
SpacingMetres(coord) ==
    LET f == IF coord.units = "km" THEN 1000 ELSE 1
    IN  <<f * (coord.points[2][1] * coord.points[1][2]
               - coord.points[1][1] * coord.points[2][2]),
          coord.points[2][2] * coord.points[1][2]>>

\* floor(radius_km * 1000 / |spacing|)
FloorCells(radius_km, spacing) ==
    Floor(radius_km[1] * 1000 * spacing[2], radius_km[2] * Abs(spacing[1]))

Allowed == 1..MAX_KERNEL_CELL_RADIUS

NumberOfRadii == Len(args.radii_in_km.v)

\* C8: once the constructor has run with lead_times given, it has raised
\* the configuration error if the number of radii differs from the number
\* of lead times and has constructed the plugin if the two are equal,
\* whether radii_in_km is a single radius or a list.
C8_MismatchRaisesAtConstruction ==
    (pc # "init" /\ ~args.lead_times.is_none) =>
        IF NumberOfRadii # Len(args.lead_times.v)
        THEN pc = "raised" /\ exc = MismatchError
        ELSE pc = "constructed" /\ exc = None

\* Whether r is the value at t of the straight line through (x0, f0) and
\* (x1, f1), x0 < x1; all are rationals.
OnSegment(t, r, x0, f0, x1, f1) ==
    RatMul(RatSub(r, f0), RatSub(x1, x0))
        = RatMul(RatSub(f1, f0), RatSub(t, x0))

\* Whether r is the piecewise-linear interpolation of the schedule
\* (xp, fp) at t, clamped to the first and the last radius.
IsClampedInterpolation(t, r, xp, fp) ==
    IF RatLess(t, xp[1]) THEN r = fp[1]
    ELSE IF RatLess(xp[Len(xp)], t) THEN r = fp[Len(fp)]
    ELSE \A j \in 1..Len(xp) :
            /\ (t = xp[j] => r = fp[j])
            /\ (j < Len(xp) /\ RatLess(xp[j], t) /\ RatLess(t, xp[j + 1]) =>
                   OnSegment(t, r, xp[j], fp[j], xp[j + 1], fp[j + 1]))

\* The radius the loop pairs with the slice of lead time 3, -5 and 9 for
\* the schedule [0, 6], [10, 30].
ExampleRadius(t) == IF t = 3 THEN 20 ELSE IF t = -5 THEN 10 ELSE 30

\* C4: in schedule mode, once the radii have been interpolated, the radius
\* paired with the slice of each required lead time t is the piecewise-
\* linear interpolation of the schedule at t, clamped to the first radius
\* below the schedule and to the last above it; for the schedule [0, 6],
\* [10, 30] it is 20 at 3, 10 at -5 and 30 at 9.
C4_RadiusIsClampedInterpolation ==
    pc = "loop" =>
        /\ Len(todo) = Len(required_lead_times)
        /\ \A i \in 1..Len(todo) :
              /\ todo[i].radius_in_km = required_radii_in_km[i]
              /\ IsClampedInterpolation(required_lead_times[i],
                     todo[i].radius_in_km, plugin.lead_times.v,
                     plugin.radii_in_km.v)
              /\ (/\ plugin.lead_times.v = Ints(<<0, 6>>)
                  /\ plugin.radii_in_km.v = Ints(<<10, 30>>)
                  /\ required_lead_times[i] \in {RatInt(3), RatInt(-5),
                                                 RatInt(9)})
                 => todo[i].radius_in_km
                        = RatInt(ExampleRadius(required_lead_times[i][1]))

\* The schedule [0, 6], [10, 30] and a cube of the lead times 3 and 6: the
\* radii are 20, between the two entries, and 30.
C4_Witness ==
    /\ pc = "loop"
    /\ plugin.lead_times.v = Ints(<<0, 6>>)
    /\ plugin.radii_in_km.v = Ints(<<10, 30>>)
    /\ required_lead_times = Ints(<<3, 6>>)
    /\ Len(todo) = 2
    /\ todo[1].radius_in_km = RatInt(20)
    /\ todo[2].radius_in_km = RatInt(30)

Finished == pc \in {"returned", "raised"}

\* C5: once the checks of process have run on a field with a NaN or with
\* more than one realization, process has raised the data-validity error
\* with no range resolved and no kernel built; on a field without a NaN and
\* with at most one realization the checks pass and process goes on.
C5_DataValidityFirst ==
    pc # "process" =>
        IF cube_in.realization > 1 \/ HasNaN(cube_in.data)
        THEN /\ pc = "raised"
             /\ exc \in DataValidityErrors
             /\ calls = <<>>
             /\ ranges = <<>>
             /\ kernel = NoKernel
             /\ result = NoCube
        ELSE exc \notin DataValidityErrors

\* A field with a NaN and one realization: the NaN is what raises.
C5_Witness ==
    /\ pc = "raised"
    /\ exc = NaNError
    /\ cube_in.realization = 1
    /\ HasNaN(cube_in.data)
    /\ calls = <<>>

\* C10: in process, in either mode, the ranges a kernel is built from have
\* passed the guards of _get_grid_x_y_kernel_ranges, and the kernel that
\* reaches the division has a total weight above 0.
C10_KernelSumPositive ==
    /\ pc \in {"constant_kernel", "slice_kernel", "constant_smooth",
               "slice_smooth"}
           => ranges \in Allowed \X Allowed
    /\ \A i \in 1..Len(calls) :
           calls[i].fn = "kernel" => calls[i].ranges \in Allowed \X Allowed
    /\ pc \in {"constant_smooth", "slice_smooth"}
           => KernelSum(kernel)[1] > 0 /\ KernelSum(kernel)[2] > 0

\* The second slice of a cube in schedule mode is about to be divided by
\* the sum of a weighted kernel.
C10_Witness ==
    /\ pc = "slice_smooth"
    /\ Len(cubes) = 1
    /\ ~plugin.unweighted_mode
    /\ ranges[1] # ranges[2]
    /\ KernelSum(kernel)[1] > 0

ScheduleMode == ~plugin.lead_times.is_none

\* The coordinates of a field other than time.
Metadata(c) ==
    <<c.x, c.y, c.realization, c.forecast_period, c.forecast_reference_time>>

\* C6: when process has raised, nothing has been returned and the caller's
\* cube is as it was, data and coordinates; when it has returned, the
\* field differs from the input in its data and, in schedule mode, its
\* time dimension only.
C6_ErrorsLeaveFieldUnchanged ==
    /\ pc = "raised" => result = NoCube /\ cube = cube_in
    /\ pc = "returned" =>
           /\ Metadata(result) = Metadata(cube_in)
           /\ Metadata(cube) = Metadata(cube_in)
           /\ ~ScheduleMode =>
                  result.dims = cube_in.dims /\ result.time = cube_in.time

\* The lead time of the i-th time slice of a cube: what
\* _find_required_lead_times finds on the slice itself.
OwnLeadTime(c, i) == find_required_lead_times(TimeSlice(c, i)).lead_times[1]

\* The radius of the schedule at the lead time of the i-th slice.
OwnRadius(c, i) ==
    Interp1(OwnLeadTime(c, i), plugin.lead_times.v, plugin.radii_in_km.v)

\* The i-th slice smoothed with the kernel of its own radius.
OwnSmoothed(c, i) ==
    LET slice == TimeSlice(c, i)
        rs == get_grid_x_y_kernel_ranges(slice, Single(OwnRadius(c, i))).ranges
    IN  Smooth(slice.data,
               BuildKernel(slice, rs, plugin.unweighted_mode).kernel)

\* The dimensions of a cube without time.
SpatialDims(c) == IF HasTimeDim(c) THEN Tail(c.dims) ELSE c.dims
SpatialShape(c) == IF HasTimeDim(c) THEN Tail(c.data.shape) ELSE c.data.shape

\* C7: when process has returned in schedule mode on a field of n time
\* slices, it has resolved ranges and built a kernel once per time index,
\* in order, each from the radius of the slice's own lead time, and the
\* field returned holds the n smoothed slices in the order of the input,
\* with time and the input's other dimensions.
C7_OncePerSliceInOrder ==
    (pc = "returned" /\ ScheduleMode) =>
        LET n == SliceCount(cube_in)
        IN  /\ Len(cubes) = n
            /\ Len(calls) = 2 * n
            /\ \A i \in 1..n :
                  /\ calls[2 * i - 1] =
                         Call("ranges", i, Single(OwnRadius(cube_in, i)), <<>>)
                  /\ calls[2 * i].fn = "kernel"
                  /\ calls[2 * i].slice = i
            /\ result.dims = <<"time">> \o SpatialDims(cube_in)
            /\ result.data.shape = <<n>> \o SpatialShape(cube_in)
            /\ \A i \in 1..n :
                  \A k \in 1..Size(SpatialShape(cube_in)) :
                      result.data.flat[(i - 1) * Size(SpatialShape(cube_in)) + k]
                          = OwnSmoothed(cube_in, i).flat[k]

\* What holds of the loop: the claim for a field whose source of lead times
\* has one point per time slice.
C7_WhenOneLeadTimePerSlice ==
    Len(required_lead_times) = SliceCount(cube_in) => C7_OncePerSliceInOrder

\* Whether every cell of an array is v.
AllCells(data, v) == \A k \in 1..Len(data.flat) : data.flat[k] = v

\* C2: when process, in constant-radius mode, has got ranges for a field
\* that is v everywhere, it returns the field with v in every cell, in
\* weighted and in unweighted mode.
C2_ConstantFieldReproduced ==
    (/\ Finished
     /\ ~ScheduleMode
     /\ AllCells(cube_in.data, cube_in.data.flat[1])
     /\ \E i \in 1..Len(calls) : calls[i].fn = "kernel")
        => /\ pc = "returned"
           /\ AllCells(result.data, cube_in.data.flat[1])

\* What holds of the smoothing: the claim for the fields that are returned.
C2_WhenReturned ==
    (/\ pc = "returned"
     /\ AllCells(cube_in.data, cube_in.data.flat[1]))
        => AllCells(result.data, cube_in.data.flat[1])

\* The weight of the kernel at a multi-index, as num and den.
WeightAt(idx) == kernel.num[Ravel(idx, kernel.shape) + 1]

KernelCells == 0..(Len(kernel.num) - 1)

\* The multi-index mirrored about the centre along dimension d.
Mirror(idx, d) == [idx EXCEPT ![d] = kernel.shape[d] - 1 - idx[d]]

\* C3: the kernel built from ranges (range_x, range_y), for either order
\* of the x and y dimensions and in both modes, has the same weight at
\* offsets (i, j), (-i, j) and (i, -j).
C3_KernelSymmetric ==
    pc = "constant_smooth" =>
        \A k \in KernelCells :
            LET idx == Unravel(k, kernel.shape)
            IN  /\ WeightAt(idx) = WeightAt(Mirror(idx, CoordDim(cube, "x")))
                /\ WeightAt(idx) = WeightAt(Mirror(idx, CoordDim(cube, "y")))

\* What holds of the kernel: the claim when x is the dimension before y or
\* the two ranges are equal.
C3_WhenXFirstOrSquare ==
    (CoordDim(cube, "x") < CoordDim(cube, "y") \/ ranges[1] = ranges[2])
        => C3_KernelSymmetric

\* The weight the claim gives the cell at offsets i along x and j along y:
\* whether the kernel's num / den is that weight.
IsDiscWeight(num, den, i, j) ==
    LET p == ranges[1] * ranges[2]
        s == i * i + j * j
    IN  IF s > p THEN num = 0
        ELSE IF plugin.unweighted_mode THEN num = den
        ELSE num * p = (p - s) * den

\* C9: the kernel built from ranges (range_x, range_y), for either order
\* of the x and y dimensions, has 2*range_x+1 cells along x, 2*range_y+1
\* along y and 1 along any other dimension, and its weight at offsets
\* (i, j) is 0 if i^2 + j^2 > range_x*range_y and otherwise 1 in unweighted
\* mode and (range_x*range_y - i^2 - j^2) / (range_x*range_y) in weighted
\* mode.
C9_KernelIsDisc ==
    pc # "constant_kernel" =>
        LET xd == CoordDim(cube, "x")
            yd == CoordDim(cube, "y")
        IN  /\ exc = None
            /\ kernel.den > 0
            /\ kernel.shape =
                   [d \in 1..Len(cube.dims) |->
                       IF d = xd THEN 2 * ranges[1] + 1
                       ELSE IF d = yd THEN 2 * ranges[2] + 1 ELSE 1]
            /\ \A k \in KernelCells :
                   LET idx == Unravel(k, kernel.shape)
                   IN  IsDiscWeight(WeightAt(idx), kernel.den,
                                    idx[xd] - ranges[1], idx[yd] - ranges[2])

\* What holds of the kernel: the claim when x is the dimension before y or
\* the two ranges are equal.
C9_WhenXFirstOrSquare ==
    (CoordDim(cube, "x") < CoordDim(cube, "y") \/ ranges[1] = ranges[2])
        => C9_KernelIsDisc

====
